---- MODULE Spec2Model ----
(***************************************************************************)
(* Model of packages/django-app/app/core/admin.py: the user creation form  *)
(* (UserCreationForm), the Image admin (ImageAdmin: its change form and    *)
(* its force_delete action) and the Label admin.                           *)
(*                                                                         *)
(* Text values (emails, raw passwords) are strings; a Python value that    *)
(* may be None is the sequence <<>> (None) or <<s>> (the string s).        *)
(***************************************************************************)
EXTENDS Integers, Sequences, FiniteSets, TLC

\* ------------------------------------------------------------------ bounds
NumEmails == 1
NumImages == 2

EmailPool == <<"a@x.io", "b@x.io", "c@x.io", "d@x.io">>
Emails == {EmailPool[i] : i \in 1..NumEmails}

\* Raw password values an operator may type: blank, a common password, a
\* password equal to an email address, and two unrelated strong passwords.
Passwords == {"", "password", "a@x.io", "Str0ng#1", "Str0ng#2"}
CommonPasswords == {"password"}

ImageIds == 1..NumImages

\* ------------------------------------------------------------ Python values
None == <<>>
Some(s) == <<s>>
\* Python truthiness of an optional string: None and "" are falsy.
Truthy(v) == v # None /\ v # Some("")
\* dict.get(key): None when the key is missing.
Get(d, k) == IF k \in DOMAIN d THEN Some(d[k]) ELSE None
\* del d[key]
Del(d, k) == [x \in DOMAIN d \ {k} |-> d[x]]
\* d[key] = value
Put(d, k, v) == [x \in DOMAIN d \cup {k} |-> IF x = k THEN v ELSE d[x]]
EmptyDict == [x \in {} |-> ""]

\* ------------------------------------------------------- password hashing
\* user.set_password(raw) stores make_password(raw); a freshly constructed
\* User carries the blank credential, which no raw password verifies against.
BlankCredential == <<>>
make_password(raw) == <<"pbkdf2_sha256", raw>>
check_password(raw, encoded) == encoded # BlankCredential /\ encoded = make_password(raw)

\* password_validation.validate_password(password, user): the set of error
\* codes it raises with (empty when the password passes the policy).
validate_password(password, user) ==
    (IF password \in CommonPasswords THEN {"password_too_common"} ELSE {})
    \cup (IF password = user.email THEN {"password_too_similar"} ELSE {})

VARIABLES
    users,          \* persisted User rows: email -> [password |-> credential]
    pc,             \* position of the current creation request
    data,           \* the bound form data: [email, password1, password2]
    commit,         \* the commit argument save() is called with
    cleaned_data,   \* form.cleaned_data
    errors,         \* form.errors: set of <<field, code>>
    instance,       \* form.instance, the in-progress User
    checked,        \* passwords validate_password was run on
    nsaved,         \* times user.save() ran for the current form
    images,         \* Image rows: id -> record (all rows, soft-deleted too)
    labels,         \* Label rows: id -> slug
    notices,        \* messages shown to the operator
    force_deleted   \* the querysets force_delete was invoked with, in order

userVars == <<users, pc, data, commit, cleaned_data, errors, instance, checked, nsaved>>
imageVars == <<images, labels, notices, force_deleted>>
vars == <<users, pc, data, commit, cleaned_data, errors, instance, checked, nsaved,
          images, labels, notices, force_deleted>>

\* ------------------------------------------------------ UserCreationForm
NoData == [email |-> "", password1 |-> "", password2 |-> ""]
NewUser == [email |-> "", password |-> BlankCredential]

\* UserCreationForm.clean_password2
clean_password2(cd) ==
    LET password1 == Get(cd, "password1")
        password2 == Get(cd, "password2")
    IN  IF Truthy(password1) /\ Truthy(password2) /\ password1 # password2
        THEN [raised |-> TRUE, code |-> "password_mismatch", value |-> None]
        ELSE [raised |-> FALSE, code |-> "", value |-> password2]

\* forms.Form._clean_fields over email, password1, password2 (in field
\* order): each value is stored in cleaned_data, then clean_<field> runs; a
\* ValidationError is added to errors and the field leaves cleaned_data.
clean_fields(d) ==
    LET cd1 == Put(Put(EmptyDict, "email", d.email), "password1", d.password1)
        cd2 == Put(cd1, "password2", d.password2)
        r   == clean_password2(cd2)
    IN  IF r.raised
        THEN [cleaned_data |-> Del(cd2, "password2"), errors |-> {<<"password2", r.code>>}]
        ELSE [cleaned_data |-> Put(cd2, "password2", r.value[1]), errors |-> {}]

\* UserCreationForm._post_clean: super()._post_clean() copies the cleaned
\* model fields onto the instance, then the password is validated against it.
post_clean(cd, errs, inst) ==
    LET user     == [inst EXCEPT !.email = cd["email"]]
        password == Get(cd, "password2")
        found    == IF Truthy(password) THEN validate_password(password[1], user) ELSE {}
    IN  [instance     |-> user,
         checked      |-> IF Truthy(password) THEN {password[1]} ELSE {},
         cleaned_data |-> IF found # {} THEN Del(cd, "password2") ELSE cd,
         errors       |-> errs \cup {<<"password2", c>> : c \in found}]

\* The add view binds a new form to the submitted data.
Submit(email, password1, password2, c) ==
    /\ pc = "idle"
    /\ email \notin DOMAIN users
    /\ data' = [email |-> email, password1 |-> password1, password2 |-> password2]
    /\ commit' = c
    /\ pc' = "bound"
    /\ UNCHANGED <<users, cleaned_data, errors, instance, checked, nsaved>>
    /\ UNCHANGED imageVars

\* form.is_valid(): full_clean = _clean_fields, _clean_form, _post_clean.
full_clean ==
    /\ pc = "bound"
    /\ LET cf == clean_fields(data)
           pcl == post_clean(cf.cleaned_data, cf.errors, instance)
       IN  /\ cleaned_data' = pcl.cleaned_data
           /\ errors' = pcl.errors
           /\ instance' = pcl.instance
           /\ checked' = pcl.checked
    /\ pc' = "cleaned"
    /\ UNCHANGED <<users, data, commit, nsaved>>
    /\ UNCHANGED imageVars

\* As line 67 would be with the commit argument passed through,
\* super().save(commit=commit): the instance is persisted before the password
\* step.
SaveBeginCommitTrue ==
    /\ pc = "cleaned"
    /\ IF errors # {}
       THEN pc' = "raised" /\ UNCHANGED <<users, nsaved>>
       ELSE /\ pc' = "constructed"
            /\ IF commit
               THEN /\ users' = Put(users, instance.email, [password |-> instance.password])
                    /\ nsaved' = nsaved + 1
               ELSE UNCHANGED <<users, nsaved>>
    /\ UNCHANGED <<data, commit, cleaned_data, errors, instance, checked>>
    /\ UNCHANGED imageVars

\* save(), line 67: user = super().save(commit=False).  ModelForm.save
\* raises ValueError when the form has errors; with commit=False it persists
\* nothing and returns the instance.
SaveBegin ==
    /\ pc = "cleaned"
    /\ pc' = IF errors # {} THEN "raised" ELSE "constructed"
    /\ UNCHANGED <<users, data, commit, cleaned_data, errors, instance, checked, nsaved>>
    /\ UNCHANGED imageVars

\* As lines 69-70 would be with the raw password assigned to user.password
\* instead of set_password being called.
SaveSetPasswordRaw ==
    /\ pc = "constructed"
    /\ instance' = IF Truthy(Get(cleaned_data, "password1"))
                   THEN [instance EXCEPT !.password = <<"raw", cleaned_data["password1"]>>]
                   ELSE instance
    /\ pc' = "password_done"
    /\ UNCHANGED <<users, data, commit, cleaned_data, errors, checked, nsaved>>
    /\ UNCHANGED imageVars

\* As lines 69-70 would be without the test of cleaned_data['password1'].
SaveSetPasswordAlways ==
    /\ pc = "constructed"
    /\ instance' = [instance EXCEPT !.password = make_password(cleaned_data["password1"])]
    /\ pc' = "password_done"
    /\ UNCHANGED <<users, data, commit, cleaned_data, errors, checked, nsaved>>
    /\ UNCHANGED imageVars

\* save(), lines 69-70: if cleaned_data['password1']: user.set_password(...)
SaveSetPassword ==
    /\ pc = "constructed"
    /\ instance' = IF Truthy(Get(cleaned_data, "password1"))
                   THEN [instance EXCEPT !.password = make_password(cleaned_data["password1"])]
                   ELSE instance
    /\ pc' = "password_done"
    /\ UNCHANGED <<users, data, commit, cleaned_data, errors, checked, nsaved>>
    /\ UNCHANGED imageVars

\* save(), lines 72-74: if commit: user.save(); return user
SaveCommit ==
    /\ pc = "password_done"
    /\ IF commit
       THEN /\ users' = Put(users, instance.email, [password |-> instance.password])
            /\ nsaved' = nsaved + 1
       ELSE UNCHANGED <<users, nsaved>>
    /\ pc' = "returned"
    /\ UNCHANGED <<data, commit, cleaned_data, errors, instance, checked>>
    /\ UNCHANGED imageVars

\* The request ends (the form is re-rendered with its errors, save() raised,
\* or save() returned) and the form object is dropped.
Finish ==
    /\ \/ pc \in {"raised", "returned"}
       \/ pc = "cleaned" /\ errors # {}
    /\ pc' = "idle"
    /\ data' = NoData
    /\ commit' = FALSE
    /\ cleaned_data' = EmptyDict
    /\ errors' = {}
    /\ instance' = NewUser
    /\ checked' = {}
    /\ nsaved' = 0
    /\ UNCHANGED users
    /\ UNCHANGED imageVars

InitUser ==
    /\ users = [x \in {} |-> [password |-> BlankCredential]]
    /\ pc = "idle"
    /\ data = NoData
    /\ commit = FALSE
    /\ cleaned_data = EmptyDict
    /\ errors = {}
    /\ instance = NewUser
    /\ checked = {}
    /\ nsaved = 0

\* ------------------------------------------------------------ ImageAdmin
NULL == "NULL"
\* Timestamp values: T0 and T1 were written by the model layer before the
\* run, Now is written by the model layer during it, Forged is a value an
\* operator puts into a submitted change form.
T0 == "t0"
T1 == "t1"
Now == "now"
Forged == "forged"

\* ImageAdmin.fields
fields == <<"filename", "uri", "description", "created_at", "modified_at",
            "deleted_at", "is_active">>
FieldNames == {fields[k] : k \in DOMAIN fields}

\* As ImageAdmin.readonly_fields would be without line 186: the list
\* inherited from BaseAdminMixin.
readonly_fields_inherited == {"created_at", "modified_at"}

\* ImageAdmin.readonly_fields (it overrides BaseAdminMixin.readonly_fields)
readonly_fields == {"created_at", "modified_at", "deleted_at"}

\* The fields of the generated change form: ModelAdmin.get_form excludes the
\* read-only fields from the declared ones.
EditableFields == FieldNames \ readonly_fields

\* The Image row an upload created.
StoredImage(deleted_at) ==
    [filename |-> "a.png", uri |-> "s3://a", description |-> "", created_at |-> T0,
     modified_at |-> T0, deleted_at |-> deleted_at, is_active |-> TRUE]

\* Data an operator may POST to the change view: a value for every field
\* name, whether or not the form has that field.
PostInputs ==
    {[filename |-> "b.png", uri |-> "s3://b", description |-> "edited",
      created_at |-> Forged, modified_at |-> Forged, deleted_at |-> Forged,
      is_active |-> a] : a \in BOOLEAN}

\* Query paths of the Image model: the default manager leaves soft-deleted
\* rows out, the unfiltered path sees every row of the table.
DefaultManager(rows) == {i \in DOMAIN rows : rows[i].deleted_at = NULL}
AllObjects(rows) == DOMAIN rows

\* ImageQuerySet.delete(force_delete=...): with force_delete the rows are
\* removed from the table, without it they are marked deleted.
QuerySetDelete(rows, queryset, force) ==
    IF force
    THEN [i \in DOMAIN rows \ queryset |-> rows[i]]
    ELSE [i \in DOMAIN rows |->
            IF i \in queryset THEN [rows[i] EXCEPT !.deleted_at = Now] ELSE rows[i]]

SuccessNotice == [level |-> "SUCCESS", message |-> " Force Deleted FormTemplates!"]

\* As force_delete would be with queryset.delete() called without the flag.
force_delete_soft(queryset) ==
    /\ pc = "idle"
    /\ queryset # {}
    /\ queryset \subseteq DefaultManager(images)
    /\ images' = QuerySetDelete(images, queryset, FALSE)
    /\ notices' = Append(notices, SuccessNotice)
    /\ force_deleted' = Append(force_deleted, queryset)
    /\ UNCHANGED labels
    /\ UNCHANGED userVars

\* As force_delete would be if it deleted through the manager instead of
\* the queryset it was handed.
force_delete_all(queryset) ==
    /\ pc = "idle"
    /\ queryset # {}
    /\ queryset \subseteq DefaultManager(images)
    /\ images' = QuerySetDelete(images, DefaultManager(images), TRUE)
    /\ notices' = Append(notices, SuccessNotice)
    /\ force_deleted' = Append(force_deleted, queryset)
    /\ UNCHANGED labels
    /\ UNCHANGED userVars

\* ImageAdmin.force_delete(request, queryset); the changelist hands it the
\* selected rows of the admin queryset, and at least one must be selected.
force_delete(queryset) ==
    /\ pc = "idle"
    /\ queryset # {}
    /\ queryset \subseteq DefaultManager(images)
    /\ images' = QuerySetDelete(images, queryset, TRUE)
    /\ notices' = Append(notices, SuccessNotice)
    /\ force_deleted' = Append(force_deleted, queryset)
    /\ UNCHANGED labels
    /\ UNCHANGED userVars

\* As the change view would be if it saved the posted form without looking
\* the row up first: a missing row is inserted again.
change_view_upsert(i, post, touch) ==
    /\ pc = "idle"
    /\ i \in ImageIds
    /\ i \in DOMAIN images => images[i].deleted_at = NULL
    /\ LET old == IF i \in DOMAIN images THEN images[i] ELSE StoredImage(NULL)
       IN  images' = [j \in DOMAIN images \cup {i} |->
                        IF j = i
                        THEN [f \in FieldNames |->
                                IF f \in EditableFields THEN post[f]
                                ELSE IF f = "modified_at" /\ touch THEN Now
                                ELSE old[f]]
                        ELSE images[j]]
    /\ UNCHANGED <<labels, notices, force_deleted>>
    /\ UNCHANGED userVars

\* The Image change view: the row is looked up in the admin queryset, the
\* form's fields are taken from the POST data, every other column keeps its
\* value, and the model layer may refresh modified_at when the row is saved.
change_view(i, post, touch) ==
    /\ pc = "idle"
    /\ i \in DefaultManager(images)
    /\ images' = [images EXCEPT ![i] =
                    [f \in FieldNames |->
                        IF f \in EditableFields THEN post[f]
                        ELSE IF f = "modified_at" /\ touch THEN Now
                        ELSE images[i][f]]]
    /\ UNCHANGED <<labels, notices, force_deleted>>
    /\ UNCHANGED userVars

\* ------------------------------------------------------------ LabelAdmin
Slugs == {"cat", "dog"}

\* The Label change view: slug is the label's editable field.
label_change_view(l, slug) ==
    /\ pc = "idle"
    /\ l \in DOMAIN labels
    /\ labels' = [labels EXCEPT ![l] = slug]
    /\ UNCHANGED <<images, notices, force_deleted>>
    /\ UNCHANGED userVars

\* The Image table holds rows the application stored earlier, some of them
\* soft-deleted; there is one label.
InitImage ==
    /\ images \in [ImageIds -> {StoredImage(d) : d \in {NULL, T1}}]
    /\ labels = <<"cat">>
    /\ notices = <<>>
    /\ force_deleted = <<>>

Init == InitUser /\ InitImage

\* Requests are handled one at a time: the admin actions and change views
\* run between user-creation requests.
Next ==
    \/ \E email \in Emails, password1 \in Passwords, password2 \in Passwords, c \in BOOLEAN :
          Submit(email, password1, password2, c)
    \/ full_clean
    \/ SaveBegin
    \/ SaveSetPassword
    \/ SaveCommit
    \/ Finish
    \/ \E queryset \in SUBSET ImageIds : force_delete(queryset)
    \/ \E i \in ImageIds, post \in PostInputs, touch \in BOOLEAN : change_view(i, post, touch)
    \/ \E l \in DOMAIN labels, slug \in Slugs : label_change_view(l, slug)

Spec == Init /\ [][Next]_vars

\* ------------------------------------------------------------------ claims
Cleaned == pc \in {"cleaned", "raised", "constructed", "password_done", "returned"}
Saved == pc \in {"password_done", "returned"}
SubmittedUser == [NewUser EXCEPT !.email = data.email]
\* A non-blank password the strength policy rejects for the submitted user.
Weak(p) == p # "" /\ validate_password(p, SubmittedUser) # {}
PurgedIds == UNION {force_deleted[k] : k \in DOMAIN force_deleted}
\* The values an operator can submit for a field of the Image change form.
Submitted(f) == {post[f] : post \in PostInputs}

\* C1 (as stated): whenever password1 and password2 differ, the validated
\* form carries the password_mismatch error and no credential is set on the
\* user.
C1_MismatchRejected ==
    (Cleaned /\ data.password1 # data.password2)
        => /\ <<"password2", "password_mismatch">> \in errors
           /\ instance.password = BlankCredential

\* C2: when password1 and password2 are equal, non-blank and pass the
\* strength policy, validation leaves no error, save() does not raise, and
\* after save(commit=True) the stored credential verifies against exactly
\* that password.
C2_GoodPasswordStored ==
    (pc # "idle" /\ data.password1 = data.password2 /\ data.password1 # ""
        /\ ~Weak(data.password1))
        => /\ Cleaned => errors = {}
           /\ pc # "raised"
           /\ (pc = "returned" /\ commit) =>
                /\ data.email \in DOMAIN users
                /\ \A q \in Passwords :
                      check_password(q, users[data.email].password) <=> q = data.password1

C2_Witness ==
    /\ pc = "returned" /\ commit
    /\ data.password1 = data.password2 /\ data.password1 # ""
    /\ ~Weak(data.password1)

\* C3 (as stated): whenever a submitted password fails the strength policy,
\* the validated form carries an error and no user gets a credential.
C3_WeakRejected ==
    (Cleaned /\ (Weak(data.password1) \/ Weak(data.password2)))
        => /\ errors # {}
           /\ instance.password = BlankCredential
           /\ data.email \notin DOMAIN users

\* C4: when both password fields are blank, validation leaves no error and
\* runs no strength check, save() does not raise and leaves the blank
\* credential on the user, which no password verifies against; with
\* commit=True that user is stored.
C4_BlankNoPassword ==
    (pc # "idle" /\ data.password1 = "" /\ data.password2 = "")
        => /\ Cleaned => (errors = {} /\ checked = {})
           /\ pc # "raised"
           /\ Saved =>
                /\ instance.password = BlankCredential
                /\ \A q \in Passwords : ~check_password(q, instance.password)
           /\ (pc = "returned" /\ commit) =>
                /\ data.email \in DOMAIN users
                /\ \A q \in Passwords : ~check_password(q, users[data.email].password)

C4_Witness ==
    /\ pc = "returned" /\ commit
    /\ data.password1 = "" /\ data.password2 = ""
    /\ data.email \in DOMAIN users

\* C5: every record a force_delete call was given is gone from every query
\* path, the unfiltered one included, and each call reported exactly one
\* success notice.
C5_ForceDeleteRemoves ==
    /\ \A k \in DOMAIN force_deleted :
          /\ force_deleted[k] \cap AllObjects(images) = {}
          /\ force_deleted[k] \cap DefaultManager(images) = {}
    /\ Len(notices) = Len(force_deleted)
    /\ \A k \in DOMAIN notices : notices[k] = SuccessNotice

C5_Witness ==
    \E k \in DOMAIN force_deleted :
        /\ Cardinality(force_deleted[k]) >= 2
        /\ force_deleted[k] \cap AllObjects(images) = {}

\* C6 (as stated): of the exposed fields, only filename, description and
\* is_active ever take a value submitted through the change view.
C6_OnlyThreeEditable ==
    \A i \in DOMAIN images :
        \A f \in FieldNames \ {"filename", "description", "is_active"} :
            images[i][f] \notin Submitted(f)

\* C6 (amended): the exposed fields are filename, uri, description, the three
\* timestamps and is_active; the change form takes filename, uri, description
\* and is_active, and created_at, modified_at and deleted_at never take a
\* value submitted through the change view.
C6_TimestampsReadOnly ==
    /\ FieldNames = {"filename", "uri", "description", "created_at", "modified_at",
                     "deleted_at", "is_active"}
    /\ EditableFields = {"filename", "uri", "description", "is_active"}
    /\ \A i \in DOMAIN images :
          \A f \in {"created_at", "modified_at", "deleted_at"} :
              images[i][f] \notin Submitted(f)

C6_Witness ==
    \E i \in DOMAIN images :
        /\ images[i].filename = "b.png"
        /\ images[i].uri = "s3://b"
        /\ images[i].is_active = FALSE
        /\ images[i].created_at = T0

\* C7: within save(), the user is persisted only by the final user.save(),
\* after the password step, at most once, and the row written carries the
\* credential save() was to set; save(commit=True) returns with the user
\* persisted exactly once, save(commit=False) returns with it not persisted,
\* and with commit=False the stored users never change.
C7_PasswordBeforePersist ==
    [][ /\ users' # users => nsaved' > nsaved
        /\ nsaved' > nsaved =>
              /\ pc = "password_done"
              /\ nsaved' = 1
              /\ data.email \in DOMAIN users'
              /\ users'[data.email].password =
                    (IF Truthy(Get(cleaned_data, "password1"))
                     THEN make_password(cleaned_data["password1"])
                     ELSE BlankCredential)
        /\ (pc' = "returned" /\ commit') => nsaved' = 1
        /\ (pc' = "returned" /\ ~commit') => nsaved' = 0
        /\ (pc # "idle" /\ ~commit) => users' = users
      ]_vars

C7_Witness ==
    /\ pc = "returned" /\ commit /\ nsaved = 1
    /\ data.email \in DOMAIN users
    /\ users[data.email].password = make_password(data.password1)

\* C8: a record removed by force_delete is never in the Image table again,
\* whatever runs afterwards.
C8_ForceDeleteIrreversible ==
    [][ \A i \in PurgedIds : i \notin DOMAIN images => i \notin DOMAIN images' ]_vars

C8_Witness ==
    /\ Len(force_deleted) = 2
    /\ PurgedIds \cap DOMAIN images = {}
    /\ pc = "returned"

\* C9 (as stated): every credential save() puts on a user is the hash of a
\* password that was typed in both fields and that the strength check was
\* run on and passed.
C9_CredentialConfirmedAndChecked ==
    instance.password # BlankCredential
        => \E p \in Passwords :
              /\ instance.password = make_password(p)
              /\ data.password1 = p /\ data.password2 = p
              /\ p \in checked
              /\ validate_password(p, instance) = {}

\* C10: a force_delete call leaves every Image row outside its queryset in
\* place and unchanged, and leaves the User and Label rows unchanged.
C10_ForceDeleteFrame ==
    [][ Len(force_deleted') > Len(force_deleted) =>
          LET queryset == force_deleted'[Len(force_deleted')]
          IN  /\ \A i \in DOMAIN images \ queryset :
                    i \in DOMAIN images' /\ images'[i] = images[i]
              /\ users' = users
              /\ labels' = labels
      ]_vars

C10_Witness ==
    /\ force_deleted # <<>>
    /\ \E i \in DOMAIN images : i \notin PurgedIds /\ images[i].deleted_at = NULL
    /\ DOMAIN users # {}
====
